---- MODULE Spec2Model ----
(***************************************************************************)
(* Model of Frontend/library/src/VideoPlayer/VideoPlayer.ts: the resize,   *)
(* orientation-debounce and match-viewport-resolution logic of the         *)
(* VideoPlayer class.                                                      *)
(*                                                                         *)
(* JavaScript numbers are IEEE-754 doubles.  A finite non-negative double  *)
(* is kept as a binary mantissa (a sequence of bits, least significant    *)
(* first, without leading or trailing zero bits) and the exponent of its   *)
(* least significant bit; every arithmetic result is rounded to 53         *)
(* significant bits, ties to even, as the hardware does.  NaN, Infinity,   *)
(* undefined and null are separate kinds of value.                         *)
(***************************************************************************)
EXTENDS Integers, Sequences, FiniteSets, TLC

VARIABLES
    now,                      \* new Date().getTime(), in milliseconds
    lastTimeResized,          \* VideoPlayer.lastTimeResized
    resizeTimeoutHandle,      \* VideoPlayer.resizeTimeoutHandle (0: undefined)
    orientationChangeTimeout, \* VideoPlayer.orientationChangeTimeout (0: undefined)
    pending,                  \* the browser's pending timers: [id, cb, due]
    matchViewportResolution,  \* config flag Flags.MatchViewportResolution
    useNativeResolution,      \* config flag Flags.UseNativeResolution
    maxResolutionX,           \* NumericParameters.MaxResolutionX (a JS value)
    maxResolutionY,           \* NumericParameters.MaxResolutionY (a JS value)
    devicePixelRatio,         \* window.devicePixelRatio (a JS value)
    clientWidth,              \* videoElementParent.clientWidth
    clientHeight,             \* videoElementParent.clientHeight
    parentElement,            \* videoElement.parentElement: "none", "fluid", "fixed-size"
    parentStyle,              \* the parent's inline style attribute
    op,                       \* the entry point that ran last
    calls,                    \* what the last entry point did, in order
    lastOrientationAt,        \* history: time of the last orientationchange event not yet
                              \* followed by a timer-driven resizePlayerStyle (-1: none)
    retryFirings              \* history: retry timers fired since the last call of
                              \* updateVideoStreamSize that came from outside the retry
                              \* timer, if that call was skipped (-1: it was not)

vars == <<now, lastTimeResized, resizeTimeoutHandle, orientationChangeTimeout,
          pending, matchViewportResolution, useNativeResolution, maxResolutionX,
          maxResolutionY, devicePixelRatio, clientWidth, clientHeight,
          parentElement, parentStyle, op, calls, lastOrientationAt,
          retryFirings>>

(***************************************************************************)
(* IEEE-754 double arithmetic on non-negative values.                      *)
(***************************************************************************)

\* The arithmetic of a JavaScript number: a double keeps mantissaBits
\* significant bits.  Long arithmetic works on limbs of limbBits bits, so
\* that the product of two limbs stays a machine integer, and a long
\* division is continued for quotientLimbs limbs below the binary point,
\* which gives a quotient above 2^-limbBits more bits than a double keeps.
Double == [mantissaBits |-> 53, limbBits |-> 15, quotientLimbs |-> 5]

MantissaBits == Double.mantissaBits

LimbBits == Double.limbBits

\* The element of a one-element set: Only({e : x \in {v}}) is e with x
\* standing for the value of v, so that v is computed once however often e
\* mentions x.
Only(S) == CHOOSE v \in S : TRUE

\* Powers of two that fit a machine integer.
PowersOf2 ==
    LET RECURSIVE P(_)
        P(n) == IF n = 0 THEN 1 ELSE 2 * P(n - 1)
    IN  [n \in 0..30 |-> P(n)]

Pow2(n) == PowersOf2[n]

LimbBase == Pow2(LimbBits)

\* The bits of a sequence of limbs, least significant first.
BitsOfLimbs(limbs) ==
    Only({ [i \in 1..(LimbBits * Len(l)) |->
               (l[((i - 1) \div LimbBits) + 1] \div Pow2((i - 1) % LimbBits)) % 2]
           : l \in {limbs} })

\* The binary digits of a natural number below LimbBase^2, least significant first.
BitsOf(n) == BitsOfLimbs(<<n % LimbBase, n \div LimbBase>>)

RECURSIVE ToInt(_)
\* The natural number a (short) bit sequence stands for.
ToInt(bits) ==
    Only({ IF b = <<>> THEN 0 ELSE b[1] + 2 * ToInt(Tail(b)) : b \in {bits} })

\* A bit sequence cut into limbs, least significant first.
LimbsOf(bits) ==
    Only({ [j \in 1..((Len(b) + LimbBits - 1) \div LimbBits) |->
               ToInt(SubSeq(b, LimbBits * (j - 1) + 1,
                            IF LimbBits * j < Len(b) THEN LimbBits * j ELSE Len(b)))]
           : b \in {bits} })

\* Number of zero bits at the most significant end.
HighZeros(bits) ==
    Only({ (CHOOSE d \in 0..Len(b) :
                /\ d = Len(b) \/ b[Len(b) - d] = 1
                /\ \A j \in (Len(b) - d + 1)..Len(b) : b[j] = 0)
           : b \in {bits} })

\* Drop zero bits at the most significant end.
StripHigh(bits) ==
    Only({ SubSeq(b, 1, Len(b) - HighZeros(b)) : b \in {bits} })

\* Number of zero bits at the least significant end.
LowZeros(bits) ==
    Only({ (CHOOSE z \in 0..Len(b) :
                /\ z = Len(b) \/ b[z + 1] = 1
                /\ \A j \in 1..z : b[j] = 0)
           : b \in {bits} })

\* Number of one bits at the least significant end.
LowOnes(bits) ==
    Only({ (CHOOSE z \in 0..Len(b) :
                /\ z = Len(b) \/ b[z + 1] = 0
                /\ \A j \in 1..z : b[j] = 1)
           : b \in {bits} })

Undefined == [k |-> "undefined", m |-> <<>>, e |-> 0]
Null      == [k |-> "null", m |-> <<>>, e |-> 0]
NaN       == [k |-> "nan", m |-> <<>>, e |-> 0]
Infinity  == [k |-> "inf", m |-> <<>>, e |-> 0]
Zero      == [k |-> "num", m |-> <<>>, e |-> 0]

\* The double with mantissa bits and least-significant-bit exponent e, in
\* canonical form.
Normalize(bits, e) ==
    Only({ IF hi = <<>> THEN Zero
           ELSE Only({ [k |-> "num", m |-> SubSeq(hi, z + 1, Len(hi)), e |-> e + z]
                       : z \in {LowZeros(hi)} })
           : hi \in {StripHigh(bits)} })

\* bits + 1
Inc(bits) ==
    Only({ Only({ [i \in 1..(IF z = Len(b) THEN z + 1 ELSE Len(b)) |->
                      IF i <= z THEN 0 ELSE IF i = z + 1 THEN 1 ELSE b[i]]
                  : z \in {LowOnes(b)} })
           : b \in {bits} })

\* Round an exact value bits * 2^e to the nearest double, ties to even.
RoundToDouble(bits, e) ==
    Only({ IF Len(hi) <= MantissaBits THEN Normalize(hi, e)
           ELSE LET drop   == Len(hi) - MantissaBits
                    guard  == hi[drop]
                    sticky == \E i \in 1..(drop - 1) : hi[i] = 1
                IN  Only({ Normalize(IF guard = 1 /\ (sticky \/ kept[1] = 1)
                                     THEN Inc(kept) ELSE kept, e + drop)
                           : kept \in {SubSeq(hi, drop + 1, Len(hi))} })
           : hi \in {StripHigh(bits)} })

FromInt(n) == Normalize(BitsOf(n), 0)

One == FromInt(1)

\* The dyadic rational n / 2^shift, which a double holds exactly.
Dyadic(n, shift) == Normalize(BitsOf(n), 0 - shift)

RECURSIVE MulLimbs(_, _, _)
\* limbs * n + carry, for n below LimbBase.
MulLimbs(limbs, n, carry) ==
    Only({ IF l = <<>> THEN <<c>>
           ELSE Only({ <<t % LimbBase>> \o MulLimbs(Tail(l), n, t \div LimbBase)
                       : t \in {l[1] * n + c} })
           : <<l, c>> \in {<<limbs, carry>>} })

\* Product of two finite doubles, one of whose mantissas is below LimbBase.
FMul(a, b) ==
    Only({ IF x.m = <<>> \/ y.m = <<>> THEN Zero
           ELSE LET short == IF Len(x.m) <= Len(y.m) THEN x ELSE y
                    long  == IF Len(x.m) <= Len(y.m) THEN y ELSE x
                IN  Only({ RoundToDouble(BitsOfLimbs(MulLimbs(LimbsOf(long.m), n, 0)),
                                         x.e + y.e)
                           : n \in {ToInt(short.m)} })
           : <<x, y>> \in {<<a, b>>} })

QuotientLimbs == Double.quotientLimbs

RECURSIVE DivLimbs(_, _, _)
\* Long division of r / B (r < B < LimbBase) continued for n limbs below the
\* point: the limbs least significant first, and the remainder left.
DivLimbs(r, B, n) ==
    IF n = 0 THEN [limbs |-> <<>>, rem |-> r]
    ELSE Only({ Only({ [limbs |-> rest.limbs \o <<t \div B>>, rem |-> rest.rem]
                       : rest \in {DivLimbs(t % B, B, n - 1)} })
                : t \in {r * LimbBase} })

\* Quotient of two finite non-zero doubles with mantissas below LimbBase.
\* A remainder left by the long division is a sticky bit below the quotient.
FDiv(a, b) ==
    Only({ Only({ LET bits == BitsOfLimbs(q.limbs \o <<A \div B>>)
                      f    == LimbBits * QuotientLimbs
                  IN  IF q.rem = 0 THEN RoundToDouble(bits, e - f)
                      ELSE RoundToDouble(<<1>> \o bits, e - f - 1)
                  : q \in {DivLimbs(A % B, B, QuotientLimbs)} })
           : <<A, B, e>> \in {<<ToInt(a.m), ToInt(b.m), a.e - b.e>>} })

\* Compare two mantissas aligned at their most significant bit: -1, 0, 1.
CmpHigh(x, y) ==
    Only({ Only({ LET same == CHOOSE d \in 0..n :
                                  /\ d = n \/ px[n - d] # py[n - d]
                                  /\ \A j \in (n - d + 1)..n : px[j] = py[j]
                  IN  IF same = n THEN 0
                      ELSE IF px[n - same] < py[n - same] THEN -1 ELSE 1
                  : <<px, py>> \in
                      {<<[i \in 1..n |-> IF i > n - Len(p) THEN p[i - (n - Len(p))] ELSE 0],
                         [i \in 1..n |-> IF i > n - Len(q) THEN q[i - (n - Len(q))] ELSE 0]>>} })
           : <<p, q, n>> \in {<<x, y, IF Len(x) > Len(y) THEN Len(x) ELSE Len(y)>>} })

\* Compare two finite doubles: -1, 0, 1.
FCmp(a, b) ==
    Only({ IF x.m = <<>> THEN (IF y.m = <<>> THEN 0 ELSE -1)
           ELSE IF y.m = <<>> THEN 1
           ELSE IF x.e + Len(x.m) # y.e + Len(y.m)
                THEN (IF x.e + Len(x.m) < y.e + Len(y.m) THEN -1 ELSE 1)
           ELSE CmpHigh(x.m, y.m)
           : <<x, y>> \in {<<a, b>>} })

(***************************************************************************)
(* JavaScript operators on values of any kind.                             *)
(***************************************************************************)

\* ToNumber: undefined becomes NaN, null becomes 0.
ToNumber(v) ==
    Only({ IF x.k = "undefined" THEN NaN
           ELSE IF x.k = "null" THEN Zero
           ELSE x
           : x \in {v} })

\* a * b
JsMul(a, b) ==
    Only({ IF x.k = "nan" \/ y.k = "nan" THEN NaN
           ELSE IF x.k = "inf" \/ y.k = "inf"
                THEN (IF x = Zero \/ y = Zero THEN NaN ELSE Infinity)
           ELSE FMul(x, y)
           : <<x, y>> \in {<<ToNumber(a), ToNumber(b)>>} })

\* a / b
JsDiv(a, b) ==
    Only({ IF x.k = "nan" \/ y.k = "nan" THEN NaN
           ELSE IF x.k = "inf" THEN (IF y.k = "inf" THEN NaN ELSE Infinity)
           ELSE IF y.k = "inf" THEN Zero
           ELSE IF y = Zero THEN (IF x = Zero THEN NaN ELSE Infinity)
           ELSE IF x = Zero THEN Zero
           ELSE FDiv(x, y)
           : <<x, y>> \in {<<ToNumber(a), ToNumber(b)>>} })

\* a < b: false when either side is NaN.
JsLess(a, b) ==
    Only({ IF x.k = "nan" \/ y.k = "nan" THEN FALSE
           ELSE IF x.k = "inf" THEN FALSE
           ELSE IF y.k = "inf" THEN TRUE
           ELSE FCmp(x, y) = -1
           : <<x, y>> \in {<<ToNumber(a), ToNumber(b)>>} })

\* a > b
JsGreater(a, b) == JsLess(b, a)

\* v == undefined (loose equality): true of undefined and of null only.
LooseEqUndefined(v) == v.k \in {"undefined", "null"}

\* Math.round: the nearest integer, halves upward; NaN and Infinity unchanged.
MathRound(v) ==
    Only({ IF x.k # "num" \/ x.e >= 0 THEN x
           ELSE LET fr   == 0 - x.e
                    int  == IF fr >= Len(x.m) THEN <<>> ELSE SubSeq(x.m, fr + 1, Len(x.m))
                    half == IF fr <= Len(x.m) THEN x.m[fr] ELSE 0
                IN  Normalize(IF half = 1 THEN Inc(int) ELSE int, 0)
           : x \in {ToNumber(v)} })

(***************************************************************************)
(* updateVideoStreamSize: the pixel density and the resolution.            *)
(***************************************************************************)

\* The devicePixelRatio closure.  The guard of its second return asks the
\* value to be undefined and null at once.
DevicePixelRatio(native, dpr) ==
    IF ~native THEN One
    ELSE IF dpr.k = "undefined" /\ dpr.k = "null" THEN One
    ELSE dpr

\* xAdjustmentRatio, yAdjustmentRatio: 1 without a maximum, else the
\* maximum over the raw size, capped at 1.
AdjustmentRatio(max, raw) ==
    IF LooseEqUndefined(max) THEN One
    ELSE Only({ IF JsGreater(q, One) THEN One ELSE q : q \in {JsDiv(max, raw)} })

\* The adjusted closure with each axis scaled by its own ratio.
AdjustedPerAxis(x, y, xAdjustmentRatio, yAdjustmentRatio) ==
    [x |-> JsMul(x, xAdjustmentRatio), y |-> JsMul(y, yAdjustmentRatio)]

\* The adjusted closure: both axes scaled by the smaller ratio.
Adjusted(x, y, xAdjustmentRatio, yAdjustmentRatio) ==
    IF JsLess(xAdjustmentRatio, yAdjustmentRatio)
    THEN [x |-> JsMul(x, xAdjustmentRatio), y |-> JsMul(y, xAdjustmentRatio)]
    ELSE [x |-> JsMul(x, yAdjustmentRatio), y |-> JsMul(y, yAdjustmentRatio)]

\* The resolution closure, for a parent of w by h CSS pixels.
Resolution(w, h, ratio, maxX, maxY) ==
    Only({ Only({ Only({ [x |-> MathRound(adjusted.x), y |-> MathRound(adjusted.y)]
                         : adjusted \in {Adjusted(x, y, xAdjustmentRatio, yAdjustmentRatio)} })
                  : <<xAdjustmentRatio, yAdjustmentRatio>> \in
                      {<<AdjustmentRatio(maxX, x), AdjustmentRatio(maxY, y)>>} })
           : <<x, y>> \in {<<JsMul(FromInt(w), ratio), JsMul(FromInt(h), ratio)>>} })

(***************************************************************************)
(* The parents, pixel ratios and maxima the model ranges over.             *)
(***************************************************************************)

Sizes == {0, 3, 10, 45, 1100, 2048}

MaximaX == {Undefined, FromInt(0), FromInt(7), FromInt(1920)}

MaximaY == {Undefined, FromInt(0), FromInt(33), FromInt(1080)}

\* The UseNativeResolution flag with window.devicePixelRatio.
PixelRatios ==
    {<<FALSE, FromInt(2)>>, <<FALSE, Undefined>>,
     <<TRUE, Undefined>>, <<TRUE, Null>>, <<TRUE, FromInt(1)>>, <<TRUE, FromInt(2)>>,
     <<TRUE, Dyadic(3, 1)>>, <<TRUE, Dyadic(5, 2)>>}

\* The resolution closure over these, as a table (f @@ <<>> is f, tabulated).
ResolutionOf ==
    [i \in Sizes \X Sizes \X PixelRatios \X MaximaX \X MaximaY |->
        Resolution(i[1], i[2], DevicePixelRatio(i[3][1], i[3][2]), i[4], i[5])] @@ <<>>

(***************************************************************************)
(* Timers and the handlers of the player.                                  *)
(***************************************************************************)

\* now - this.lastTimeResized > 300
RateLimitMs == 300

\* window.setTimeout(() => this.updateVideoStreamSize(), 100)
RetryDelayMs == 100

\* window.setTimeout(() => { this.resizePlayerStyle(); }, 500)
OrientationDelayMs == 500

\* Clock readings the model reaches.
MaxTicks == 9

\* Timers the browser holds at once in the model.
MaxTimers == 4

Instants == {100 * k : k \in 0..MaxTicks}

\* One thing a handler did: a callback it invoked or a browser call it made.
Call(fn) == [fn |-> fn, x |-> Undefined, y |-> Undefined]

\* clearTimeout(handle) as a handler's record keeps it: x is the number of
\* pending timers the call cancelled.
ClearTimeoutCall(pend, handle) ==
    [fn |-> "clearTimeout", x |-> IF \E t \in pend : t.id = handle THEN One ELSE Zero,
     y |-> Undefined]

RetryScheduled == "setTimeout(updateVideoStreamSize, 100)"

ResizeScheduled == "setTimeout(resizePlayerStyle, 500)"

\* Number of entries of a handler's record made by fn.
Count(log, fn) == Cardinality({i \in 1..Len(log) : log[i].fn = fn})

\* clearTimeout: no effect for a handle that is undefined or has fired.
ClearTimeout(pend, handle) == {t \in pend : t.id # handle}

\* The handle setTimeout returns: one that names no pending timer, and not
\* the (possibly stale) handle the player keeps for its other timer.
FreshId(pend, other) ==
    LET free == {i \in 1..(MaxTimers + 2) : i # other /\ \A t \in pend : t.id # i}
    IN  CHOOSE i \in free : \A j \in free : i <= j

\* A faulty SkipAndRetry: the pending retry is not cancelled.
SkipAndRetryNoClear(pend) ==
    LET id == FreshId(pend, orientationChangeTimeout)
    IN  [lastTimeResized |-> lastTimeResized,
         resizeTimeoutHandle |-> id,
         pending |-> pend \cup
                     {[id |-> id, cb |-> "updateVideoStreamSize", due |-> now + RetryDelayMs]},
         calls |-> <<Call(RetryScheduled)>>]

\* A faulty SkipAndRetry: the retry is cancelled as soon as it is scheduled.
SkipAndRetryLost(pend) ==
    [lastTimeResized |-> lastTimeResized,
     resizeTimeoutHandle |-> FreshId(pend, orientationChangeTimeout),
     pending |-> ClearTimeout(pend, resizeTimeoutHandle),
     calls |-> <<Call(RetryScheduled), ClearTimeoutCall(pend, resizeTimeoutHandle)>>]

\* The else branch of updateVideoStreamSize: drop the pending retry and
\* schedule one 100ms from now.
SkipAndRetry(pend) ==
    LET cleared == ClearTimeout(pend, resizeTimeoutHandle)
        id == FreshId(cleared, orientationChangeTimeout)
    IN  [lastTimeResized |-> lastTimeResized,
         resizeTimeoutHandle |-> id,
         pending |-> cleared \cup
                     {[id |-> id, cb |-> "updateVideoStreamSize", due |-> now + RetryDelayMs]},
         calls |-> <<ClearTimeoutCall(pend, resizeTimeoutHandle), Call(RetryScheduled)>>]

\* The branch of updateVideoStreamSize that computes the resolution, hands
\* it to the callback and records the time.
ComputeAndEmit(pend) ==
    LET resolution == ResolutionOf[<<clientWidth, clientHeight,
                                     <<useNativeResolution, devicePixelRatio>>,
                                     maxResolutionX, maxResolutionY>>]
    IN  [lastTimeResized |-> now,
         resizeTimeoutHandle |-> resizeTimeoutHandle,
         pending |-> pend,
         calls |-> <<[fn |-> "onMatchViewportResolutionCallback",
                      x |-> resolution.x, y |-> resolution.y]>>]

\* A return that changes nothing.
Nothing(pend) ==
    [lastTimeResized |-> lastTimeResized, resizeTimeoutHandle |-> resizeTimeoutHandle,
     pending |-> pend, calls |-> <<>>]

\* A faulty updateVideoStreamSize: the rate limit ends at 300ms, not after.
updateVideoStreamSizeAt300(pend) ==
    IF ~matchViewportResolution THEN Nothing(pend)
    ELSE IF now - lastTimeResized >= RateLimitMs
         THEN (IF parentElement = "none" THEN Nothing(pend) ELSE ComputeAndEmit(pend))
    ELSE SkipAndRetry(pend)

\* updateVideoStreamSize(), run with pend the timers pending at the call.
updateVideoStreamSize(pend) ==
    IF ~matchViewportResolution THEN Nothing(pend)
    ELSE IF now - lastTimeResized > RateLimitMs
         THEN (IF parentElement = "none" THEN Nothing(pend) ELSE ComputeAndEmit(pend))
    ELSE SkipAndRetry(pend)

\* The style attribute resizePlayerStyleToFillParentElement() sets.
FillParentStyle == "top: 0px; left: 0px; width: 100%; height: 100%; cursor: default;"

\* A faulty resizePlayerStyle: a fixed-size parent is restyled like any other.
resizePlayerStyleAlwaysFill(pend) ==
    IF parentElement = "none"
    THEN [update |-> Nothing(pend), parentStyle |-> parentStyle, calls |-> <<>>]
    ELSE LET update == updateVideoStreamSize(pend)
         IN  [update |-> update, parentStyle |-> FillParentStyle,
              calls |-> update.calls \o
                        <<Call("setAttribute"), Call("onResizePlayerCallback")>>]

\* A faulty resizePlayerStyle: the stream size is updated before the parent
\* is looked at.
resizePlayerStyleUpdateFirst(pend) ==
    LET update == updateVideoStreamSize(pend)
    IN  IF parentElement = "none"
        THEN [update |-> update, parentStyle |-> parentStyle, calls |-> update.calls]
        ELSE IF parentElement = "fixed-size"
        THEN [update |-> update, parentStyle |-> parentStyle,
              calls |-> update.calls \o <<Call("onResizePlayerCallback")>>]
        ELSE [update |-> update, parentStyle |-> FillParentStyle,
              calls |-> update.calls \o
                        <<Call("setAttribute"), Call("onResizePlayerCallback")>>]

\* resizePlayerStyle(), run with pend the timers pending at the call: what
\* updateVideoStreamSize left, the parent's style, and all that was called.
resizePlayerStyle(pend) ==
    IF parentElement = "none"
    THEN [update |-> Nothing(pend), parentStyle |-> parentStyle, calls |-> <<>>]
    ELSE LET update == updateVideoStreamSize(pend)
         IN  IF parentElement = "fixed-size"
             THEN [update |-> update, parentStyle |-> parentStyle,
                   calls |-> update.calls \o <<Call("onResizePlayerCallback")>>]
             ELSE [update |-> update, parentStyle |-> FillParentStyle,
                   calls |-> update.calls \o
                             <<Call("setAttribute"), Call("onResizePlayerCallback")>>]

\* A faulty onOrientationChange: the pending timer is not cancelled.
onOrientationChangeNoClear(pend) ==
    LET id == FreshId(pend, resizeTimeoutHandle)
    IN  [orientationChangeTimeout |-> id,
         pending |-> pend \cup
                     {[id |-> id, cb |-> "resizePlayerStyle", due |-> now + OrientationDelayMs]},
         calls |-> <<Call(ResizeScheduled)>>]

\* A faulty onOrientationChange: the timer is set for the retry delay.
onOrientationChangeShort(pend) ==
    LET cleared == ClearTimeout(pend, orientationChangeTimeout)
        id == FreshId(cleared, resizeTimeoutHandle)
    IN  [orientationChangeTimeout |-> id,
         pending |-> cleared \cup
                     {[id |-> id, cb |-> "resizePlayerStyle", due |-> now + RetryDelayMs]},
         calls |-> <<ClearTimeoutCall(pend, orientationChangeTimeout), Call(ResizeScheduled)>>]

\* onOrientationChange(): the timers pending and the handle kept afterwards.
onOrientationChange(pend) ==
    LET cleared == ClearTimeout(pend, orientationChangeTimeout)
        id == FreshId(cleared, resizeTimeoutHandle)
    IN  [orientationChangeTimeout |-> id,
         pending |-> cleared \cup
                     {[id |-> id, cb |-> "resizePlayerStyle", due |-> now + OrientationDelayMs]},
         calls |-> <<ClearTimeoutCall(pend, orientationChangeTimeout), Call(ResizeScheduled)>>]

environment == <<matchViewportResolution, useNativeResolution, maxResolutionX,
                 maxResolutionY, devicePixelRatio, clientWidth, clientHeight,
                 parentElement>>

\* The clock reaches the next instant.  A timer fires when it is due or at
\* the next instant: the clock does not pass a timer that is overdue.
Tick ==
    /\ now + 100 \in Instants
    /\ \A t \in pending : t.due >= now
    /\ now' = now + 100
    /\ op' = "tick"
    /\ calls' = <<>>
    /\ UNCHANGED <<lastTimeResized, resizeTimeoutHandle, orientationChangeTimeout, pending,
                   environment, parentStyle, lastOrientationAt, retryFirings>>

\* The history of a call of updateVideoStreamSize from outside the retry timer.
OutsideCall(update) ==
    retryFirings' = IF Count(update.calls, RetryScheduled) > 0 THEN 0 ELSE -1

\* A handler that ran updateVideoStreamSize, directly or from resizePlayerStyle.
ApplyUpdate(update) ==
    /\ lastTimeResized' = update.lastTimeResized
    /\ resizeTimeoutHandle' = update.resizeTimeoutHandle
    /\ pending' = update.pending

\* The window's resize listener (or any outside call of resizePlayerStyle).
WindowResize ==
    /\ Cardinality(pending) < MaxTimers
    /\ LET r == resizePlayerStyle(pending)
       IN  /\ ApplyUpdate(r.update)
           /\ parentStyle' = r.parentStyle
           /\ calls' = r.calls
           /\ IF parentElement = "none" THEN retryFirings' = retryFirings
              ELSE OutsideCall(r.update)
    /\ op' = "resize"
    /\ UNCHANGED <<now, orientationChangeTimeout, environment, lastOrientationAt>>

\* An outside call of updateVideoStreamSize.
CallUpdateVideoStreamSize ==
    /\ Cardinality(pending) < MaxTimers
    /\ LET u == updateVideoStreamSize(pending)
       IN  ApplyUpdate(u) /\ calls' = u.calls /\ OutsideCall(u)
    /\ op' = "updateVideoStreamSize"
    /\ UNCHANGED <<now, orientationChangeTimeout, environment, parentStyle, lastOrientationAt>>

\* The window's orientationchange listener.
OrientationChange ==
    /\ Cardinality(pending) < MaxTimers
    /\ LET o == onOrientationChange(pending)
       IN  /\ orientationChangeTimeout' = o.orientationChangeTimeout
           /\ pending' = o.pending
           /\ calls' = o.calls
    /\ op' = "orientationchange"
    /\ lastOrientationAt' = now
    /\ UNCHANGED <<now, lastTimeResized, resizeTimeoutHandle, environment, parentStyle,
                   retryFirings>>

\* A pending timer is due.
Due(cb) == {t \in pending : t.cb = cb /\ t.due <= now}

\* The retry timer fires: updateVideoStreamSize runs again.
ResizeTimeoutFires ==
    /\ \E t \in Due("updateVideoStreamSize") :
         LET u == updateVideoStreamSize(pending \ {t})
         IN  ApplyUpdate(u) /\ calls' = u.calls
    /\ op' = "resizeTimeout"
    /\ retryFirings' = IF retryFirings >= 0 THEN retryFirings + 1 ELSE retryFirings
    /\ UNCHANGED <<now, orientationChangeTimeout, environment, parentStyle, lastOrientationAt>>

\* The orientation timer fires: resizePlayerStyle runs.
OrientationTimeoutFires ==
    /\ \E t \in Due("resizePlayerStyle") :
         LET r == resizePlayerStyle(pending \ {t})
         IN  /\ ApplyUpdate(r.update)
             /\ parentStyle' = r.parentStyle
             /\ calls' = r.calls
             /\ IF parentElement = "none" THEN retryFirings' = retryFirings
                ELSE OutsideCall(r.update)
    /\ op' = "orientationTimeout"
    /\ lastOrientationAt' = -1
    /\ UNCHANGED <<now, orientationChangeTimeout, environment>>

\* The page moves the video element, or marks its parent fixed-size.
SetParentElement ==
    /\ \E p \in {"none", "fluid", "fixed-size"} : p # parentElement /\ parentElement' = p
    /\ op' = "page"
    /\ calls' = <<>>
    /\ UNCHANGED <<now, lastTimeResized, resizeTimeoutHandle, orientationChangeTimeout,
                   pending, matchViewportResolution, useNativeResolution, maxResolutionX,
                   maxResolutionY, devicePixelRatio, clientWidth, clientHeight,
                   parentStyle, lastOrientationAt, retryFirings>>

\* The application switches the MatchViewportResolution flag.
SetMatchViewportResolution ==
    /\ matchViewportResolution' = ~matchViewportResolution
    /\ op' = "page"
    /\ calls' = <<>>
    /\ UNCHANGED <<now, lastTimeResized, resizeTimeoutHandle, orientationChangeTimeout,
                   pending, useNativeResolution, maxResolutionX, maxResolutionY,
                   devicePixelRatio, clientWidth, clientHeight, parentElement,
                   parentStyle, lastOrientationAt, retryFirings>>

\* The player as the constructor leaves it, at time 0.
Constructed ==
    /\ now = 0
    /\ lastTimeResized = 0
    /\ resizeTimeoutHandle = 0
    /\ orientationChangeTimeout = 0
    /\ pending = {}
    /\ parentStyle = "initial"
    /\ op = "constructor"
    /\ calls = <<>>
    /\ lastOrientationAt = -1
    /\ retryFirings = -1

\* Parent sizes, pixel ratio and maxima of the timing model.
Init ==
    /\ Constructed
    /\ parentElement = "fluid"
    /\ matchViewportResolution = TRUE
    /\ useNativeResolution = FALSE
    /\ devicePixelRatio = FromInt(2)
    /\ clientWidth = 2048
    /\ clientHeight = 1100
    /\ maxResolutionX = FromInt(1920)
    /\ maxResolutionY = FromInt(1080)

Next ==
    \/ Tick
    \/ WindowResize
    \/ CallUpdateVideoStreamSize
    \/ OrientationChange
    \/ ResizeTimeoutFires
    \/ OrientationTimeoutFires
    \/ SetParentElement
    \/ SetMatchViewportResolution

Spec == Init /\ [][Next]_vars

\* The player left alone by the page: the flag stays enabled and the parent
\* attached.  The clock advances and the browser runs every timer that is
\* due.
NextLive ==
    \/ Tick
    \/ WindowResize
    \/ CallUpdateVideoStreamSize
    \/ OrientationChange
    \/ ResizeTimeoutFires
    \/ OrientationTimeoutFires

LiveSpec ==
    /\ Init
    /\ [][NextLive]_vars
    /\ WF_vars(Tick)
    /\ WF_vars(ResizeTimeoutFires)
    /\ WF_vars(OrientationTimeoutFires)

(***************************************************************************)
(* The resolution computation over a range of parents, pixel ratios and    *)
(* maxima: the player 400ms after construction, then resized or asked for  *)
(* the stream size.                                                        *)
(***************************************************************************)

InitResolution ==
    /\ now = RateLimitMs + 100
    /\ lastTimeResized = 0
    /\ resizeTimeoutHandle = 0
    /\ orientationChangeTimeout = 0
    /\ pending = {}
    /\ parentStyle = "initial"
    /\ op = "tick"
    /\ calls = <<>>
    /\ lastOrientationAt = -1
    /\ retryFirings = -1
    /\ parentElement = "fluid"
    /\ matchViewportResolution = TRUE
    /\ \E r \in PixelRatios : useNativeResolution = r[1] /\ devicePixelRatio = r[2]
    /\ clientWidth \in Sizes
    /\ clientHeight \in Sizes
    /\ maxResolutionX \in MaximaX
    /\ maxResolutionY \in MaximaY

NextResolution == WindowResize \/ CallUpdateVideoStreamSize

SpecResolution == InitResolution /\ [][NextResolution]_vars

(***************************************************************************)
(* What the claims speak of.                                               *)
(***************************************************************************)

ResolutionChanged == "onMatchViewportResolutionCallback"

\* The resolutions the last handler passed to the resolution-changed callback.
Emitted == {<<calls[i].x, calls[i].y>> : i \in {j \in 1..Len(calls) : calls[j].fn = ResolutionChanged}}

\* A defined, non-negative whole number.
IsPixelCount(v) == v.k = "num" /\ v.e >= 0

\* The integer a pixel count is.
Pixels(v) == ToInt(v.m) * Pow2(v.e)

\* Exact rational arithmetic, for comparison: a rational is [n, d], d > 0.
RatMin(p, q) == IF p.n * q.d <= q.n * p.d THEN p ELSE q

\* round(n / d), halves upward.
RoundHalfUp(q) == (2 * q.n + q.d) \div (2 * q.d)

\* The density multiplier as the rational it is (a finite double below 2^15
\* with few fraction bits).
RatOf(v) ==
    IF v.e >= 0 THEN [n |-> ToInt(v.m) * Pow2(v.e), d |-> 1]
    ELSE [n |-> ToInt(v.m), d |-> Pow2(0 - v.e)]

\* min(1, max / raw), and 1 where no maximum is set or the raw size is 0.
ExactRatio(max, raw) ==
    IF max.k # "num" \/ raw.n = 0 \/ Pixels(max) * raw.d >= raw.n THEN [n |-> 1, d |-> 1]
    ELSE [n |-> Pixels(max) * raw.d, d |-> raw.n]

\* The raw sizes W*d and H*d, and both scaled by r = min(rx, ry), exactly.
ExactRaw(size) ==
    LET d == RatOf(DevicePixelRatio(useNativeResolution, devicePixelRatio))
    IN  [n |-> size * d.n, d |-> d.d]

ExactScaled(size) ==
    LET r == RatMin(ExactRatio(maxResolutionX, ExactRaw(clientWidth)),
                    ExactRatio(maxResolutionY, ExactRaw(clientHeight)))
    IN  [n |-> ExactRaw(size).n * r.n, d |-> ExactRaw(size).d * r.d]

\* The cases C4 speaks of: a positive multiplier, maxima absent or positive.
C4_Case ==
    /\ DevicePixelRatio(useNativeResolution, devicePixelRatio).k = "num"
    /\ DevicePixelRatio(useNativeResolution, devicePixelRatio) # Zero
    /\ maxResolutionX \in {Undefined} \cup {m \in MaximaX : m.k = "num" /\ m # Zero}
    /\ maxResolutionY \in {Undefined} \cup {m \in MaximaY : m.k = "num" /\ m # Zero}

\* p is an integer nearest to q (either neighbour when q is half way).
Nearest(p, q) ==
    /\ 2 * (p * q.d - q.n) <= q.d
    /\ 2 * (q.n - p * q.d) <= q.d

AtMostMax(v, max) == max.k = "num" => Pixels(v) <= Pixels(max)

\* C4 as stated: every emitted resolution is (round(W*d*r), round(H*d*r))
\* with r = min(rx, ry), and neither emitted size exceeds its configured
\* maximum or its raw size W*d, H*d.
C4_Claimed ==
    C4_Case =>
        \A res \in Emitted :
            /\ IsPixelCount(res[1]) /\ IsPixelCount(res[2])
            /\ Pixels(res[1]) = RoundHalfUp(ExactScaled(clientWidth))
            /\ Pixels(res[2]) = RoundHalfUp(ExactScaled(clientHeight))
            /\ AtMostMax(res[1], maxResolutionX) /\ AtMostMax(res[2], maxResolutionY)
            /\ Pixels(res[1]) * ExactRaw(clientWidth).d <= ExactRaw(clientWidth).n
            /\ Pixels(res[2]) * ExactRaw(clientHeight).d <= ExactRaw(clientHeight).n

\* C4 as amended: every emitted resolution is, on each axis, an integer
\* nearest to W*d*r and H*d*r (a value half way between two integers goes to
\* either, as the double arithmetic falls); with no maxima it is
\* (round(W*d), round(H*d)) with halves upward; maxX=1920, maxY=1080,
\* 2048x1100, d=1 gives (1920,1031); and neither emitted size exceeds its
\* configured maximum or its rounded raw size.
C4_Resolution ==
    C4_Case =>
        \A res \in Emitted :
            /\ IsPixelCount(res[1]) /\ IsPixelCount(res[2])
            /\ Nearest(Pixels(res[1]), ExactScaled(clientWidth))
            /\ Nearest(Pixels(res[2]), ExactScaled(clientHeight))
            /\ (maxResolutionX = Undefined /\ maxResolutionY = Undefined) =>
                   /\ Pixels(res[1]) = RoundHalfUp(ExactRaw(clientWidth))
                   /\ Pixels(res[2]) = RoundHalfUp(ExactRaw(clientHeight))
            /\ ( /\ clientWidth = 2048 /\ clientHeight = 1100
                 /\ ExactRaw(1) = [n |-> 1, d |-> 1]
                 /\ maxResolutionX = FromInt(1920) /\ maxResolutionY = FromInt(1080) ) =>
                   (Pixels(res[1]) = 1920 /\ Pixels(res[2]) = 1031)
            /\ AtMostMax(res[1], maxResolutionX) /\ AtMostMax(res[2], maxResolutionY)
            /\ Pixels(res[1]) <= RoundHalfUp(ExactRaw(clientWidth))
            /\ Pixels(res[2]) <= RoundHalfUp(ExactRaw(clientHeight))

\* A resolution was emitted for the documented example, and for a parent
\* whose scaled height is half way between two integers.
C4_Witness ==
    /\ C4_Case /\ Emitted # {}
    /\ clientWidth = 10 /\ clientHeight = 45
    /\ maxResolutionX = FromInt(7) /\ maxResolutionY = Undefined
    /\ ExactRaw(1) = [n |-> 1, d |-> 1]

\* C5: every resolution passed to the resolution-changed callback is a pair
\* of defined, non-negative integers, whatever the parent's size (0
\* included), the maxima (absent, or 0 and more) and the device pixel ratio
\* (available or not).
C5_PixelCounts == \A res \in Emitted : IsPixelCount(res[1]) /\ IsPixelCount(res[2])

\* C6: the density multiplier is 1 when UseNativeResolution is disabled,
\* the device pixel ratio when it is enabled, and 1 when it is enabled and
\* the ratio is missing: the resolution emitted is the one that multiplier
\* gives.
C6_Multiplier ==
    LET d == IF ~useNativeResolution \/ devicePixelRatio.k \in {"undefined", "null"}
             THEN FromInt(1)
             ELSE devicePixelRatio
        expected == Resolution(clientWidth, clientHeight, d, maxResolutionX, maxResolutionY)
    IN  \A res \in Emitted : res = <<expected.x, expected.y>>

RetryTimers == {t \in pending : t.cb = "updateVideoStreamSize"}

OrientationTimers == {t \in pending : t.cb = "resizePlayerStyle"}

\* C1: at most one resolution-retry timer and at most one
\* orientation-debounce timer is pending in every reachable state.
C1_OneTimerOfAKind ==
    /\ Cardinality(RetryTimers) <= 1
    /\ Cardinality(OrientationTimers) <= 1

\* A handler has just cancelled a pending timer and scheduled its
\* successor, while a timer of the other kind is pending too.
C1_Witness ==
    /\ \E i \in 1..Len(calls) : calls[i].fn = "clearTimeout" /\ calls[i].x = One
    /\ RetryTimers # {}
    /\ OrientationTimers # {}

\* The handler of this step ran updateVideoStreamSize from outside the
\* retry timer.
OutsideUpdate ==
    \/ op' = "updateVideoStreamSize"
    \/ op' \in {"resize", "orientationTimeout"} /\ parentElement # "none"

\* In the state a handler leaves: it invoked no resolution-changed callback,
\* one retry is pending, due 100ms from now, and the timestamp is as it was.
SkippedAt(last) ==
    /\ Emitted = {}
    /\ Count(calls, RetryScheduled) = 1
    /\ \E t \in RetryTimers : RetryTimers = {t} /\ t.due = now + RetryDelayMs
    /\ lastTimeResized = last

\* In the state a handler leaves: it invoked the resolution-changed
\* callback once, scheduled no retry, and recorded the current time.
ComputedNow ==
    /\ Count(calls, ResolutionChanged) = 1
    /\ Count(calls, RetryScheduled) = 0
    /\ lastTimeResized = now

\* Retry firings that can follow a skipped call: one per RetryDelayMs while
\* the rate limit lasts, and the one that computes.
MaxRetryFirings == (RateLimitMs \div RetryDelayMs) + 1

\* C2 as stated: after a call skipped within 300ms of a computation (flag
\* enabled, parent present, no further outside call), the skipped call
\* invoked no callback and left one retry pending, and exactly one retry
\* timer firing follows it: once that retry has fired none is pending.
C2_Claimed ==
    (retryFirings >= 0 /\ lastTimeResized > 0 /\ matchViewportResolution
        /\ parentElement # "none") =>
        /\ retryFirings = 0 => Cardinality(RetryTimers) = 1
        /\ retryFirings >= 1 => RetryTimers = {}

\* Each retry firing, with the flag enabled and the parent present, either
\* comes more than 300ms after the last computation, and then computes and
\* schedules nothing, or re-arms itself 100ms later.
C2_RetryStep ==
    (op' = "resizeTimeout" /\ matchViewportResolution /\ parentElement # "none") =>
        IF now - lastTimeResized > RateLimitMs
        THEN ComputedNow' /\ RetryTimers' = {}
        ELSE SkippedAt(lastTimeResized)'

\* The skipped outside call itself: no callback, one retry, 100ms later.
C2_SecondCall ==
    (OutsideUpdate /\ matchViewportResolution /\ parentElement # "none"
        /\ now - lastTimeResized <= RateLimitMs) =>
        SkippedAt(lastTimeResized)'

\* C2 as amended: the second call invokes no resolution-changed callback
\* and leaves exactly one retry timer pending, due 100ms later; every retry
\* that fires no more than 300ms after the last computation re-arms itself
\* for another 100ms and the first to fire later than that computes, so
\* between one and four retry firings follow the second call.
C2_Retries ==
    /\ [][C2_SecondCall]_vars
    /\ [][C2_RetryStep]_vars
    /\ [](retryFirings >= 0 =>
            /\ retryFirings <= MaxRetryFirings
            /\ retryFirings = 0 => Cardinality(RetryTimers) = 1)

\* A second retry has fired after a call skipped within 300ms of a
\* computation, and it re-armed itself again.
C2_Witness ==
    /\ op = "resizeTimeout"
    /\ retryFirings = 2
    /\ lastTimeResized > 0
    /\ matchViewportResolution /\ parentElement # "none"
    /\ RetryTimers # {}

\* A call of updateVideoStreamSize, from anywhere, with the flag enabled
\* and the parent present.
UpdateRuns ==
    /\ op' \in {"updateVideoStreamSize", "resizeTimeout", "resize", "orientationTimeout"}
    /\ matchViewportResolution
    /\ parentElement # "none"

\* C3 as stated: a call with the flag enabled and the parent present is
\* skipped, with a retry scheduled, exactly when fewer than 300ms have
\* passed since the last computation; any other call invokes the callback
\* once and records the current time.
C3_Claimed ==
    [][UpdateRuns =>
        IF now - lastTimeResized < RateLimitMs
        THEN SkippedAt(lastTimeResized)'
        ELSE ComputedNow']_vars

\* C3 as amended: the call is skipped, with a retry scheduled, exactly when
\* no more than 300ms (300ms included) have passed since the last-computed
\* timestamp, which is the construction time until the first computation;
\* any other call invokes the callback once and records the current time.
C3_RateLimit ==
    [][UpdateRuns =>
        IF now - lastTimeResized <= RateLimitMs
        THEN SkippedAt(lastTimeResized)'
        ELSE ComputedNow']_vars

\* A call made exactly 300ms after a computation was skipped.
C3_Witness ==
    /\ op = "updateVideoStreamSize"
    /\ matchViewportResolution /\ parentElement # "none"
    /\ lastTimeResized > 0
    /\ now - lastTimeResized = RateLimitMs
    /\ SkippedAt(lastTimeResized)

\* The handler of this step was resizePlayerStyle.
ResizeRuns == op' \in {"resize", "orientationTimeout"}

\* i < j, calls[i] by first and calls[j] by second.
Before(log, first, second) ==
    \E i, j \in 1..Len(log) : i < j /\ log[i].fn = first /\ log[j].fn = second

\* C7: resizePlayerStyle on a fixed-size parent leaves the parent's style
\* as it was and invokes the resize-complete callback once, whether the
\* resolution was computed or rate-limited; on any other parent it sets the
\* style to top 0, left 0, width 100%, height 100% and then invokes the
\* callback once.
C7_ResizeStyle ==
    [][ResizeRuns =>
        /\ parentElement = "fixed-size" =>
            /\ parentStyle' = parentStyle
            /\ Count(calls', "setAttribute") = 0
            /\ Count(calls', "onResizePlayerCallback") = 1
        /\ parentElement = "fluid" =>
            /\ parentStyle' = FillParentStyle
            /\ Count(calls', "setAttribute") = 1
            /\ Count(calls', "onResizePlayerCallback") = 1
            /\ Before(calls', "setAttribute", "onResizePlayerCallback")]_vars

\* resizePlayerStyle ran on a fixed-size parent whose style was never
\* reset, with the resolution update rate-limited.
C7_Witness ==
    /\ op = "resize"
    /\ parentElement = "fixed-size"
    /\ parentStyle = "initial"
    /\ Count(calls, RetryScheduled) = 1
    /\ Count(calls, "onResizePlayerCallback") = 1

MaxTime == 100 * MaxTicks

\* An orientation event leaves one orientation timer, due 500ms later.
C8_EventStep ==
    op' = "orientationchange" =>
        \E t \in OrientationTimers' :
            OrientationTimers' = {t} /\ t.due = now + OrientationDelayMs

\* A timer-driven resizePlayerStyle comes 500ms or more after the last
\* orientation event, runs resizePlayerStyle, and leaves no orientation
\* timer behind.
C8_TimerStep ==
    op' = "orientationTimeout" =>
        /\ lastOrientationAt # -1
        /\ now >= lastOrientationAt + OrientationDelayMs
        /\ OrientationTimers' = {}
        /\ parentElement # "none" => Count(calls', "onResizePlayerCallback") = 1

\* C8: every orientation event cancels the pending orientation timer and
\* schedules one 500ms later; a timer-driven resizePlayerStyle never comes
\* within 500ms of the last orientation event, at most one follows a burst,
\* and one does follow the last event of a burst.
C8_Debounce ==
    /\ [][C8_EventStep]_vars
    /\ [][C8_TimerStep]_vars
    /\ [](/\ Cardinality(OrientationTimers) <= 1
          /\ lastOrientationAt = -1 <=> OrientationTimers = {}
          /\ \A t \in OrientationTimers : t.due = lastOrientationAt + OrientationDelayMs)
    /\ \A at \in Instants :
           (lastOrientationAt = at /\ at + OrientationDelayMs <= MaxTime)
               ~> (lastOrientationAt # at)

\* A second orientation event, 300ms into a burst, has cancelled the timer
\* of the first and scheduled its own.
C8_Witness ==
    /\ op = "orientationchange"
    /\ now = 300
    /\ lastOrientationAt = now
    /\ \E i \in 1..Len(calls) : calls[i].fn = "clearTimeout" /\ calls[i].x = One
    /\ \E t \in OrientationTimers : t.due = now + OrientationDelayMs

\* C9: without a parent, resizePlayerStyle changes no style, invokes no
\* callback, schedules no timer and leaves the last-computed timestamp as
\* it was; and a retry timer that fires without a parent invokes no
\* resolution-changed callback.
C9_NoParent ==
    [][parentElement = "none" =>
        /\ ResizeRuns =>
            /\ calls' = <<>>
            /\ parentStyle' = parentStyle
            /\ pending' \subseteq pending
            /\ resizeTimeoutHandle' = resizeTimeoutHandle
            /\ lastTimeResized' = lastTimeResized
        /\ op' = "resizeTimeout" => Emitted' = {}]_vars

\* resizePlayerStyle ran without a parent, long enough after the last
\* computation for the resolution to be computed had there been one.
C9_Witness ==
    /\ op = "resize"
    /\ parentElement = "none"
    /\ matchViewportResolution
    /\ now - lastTimeResized > RateLimitMs

\* A handler has just skipped the resolution update and scheduled a retry.
Skipped == Count(calls, RetryScheduled) = 1

\* C10: with the flag enabled and the parent attached, the clock advancing
\* and due timers firing, every skipped call of updateVideoStreamSize is
\* followed by an invocation of the resolution-changed callback.  (The clock
\* of the model stops at MaxTime: the skipped calls are those made a rate
\* limit and a retry before it.)
C10_EventuallyEmitted ==
    (Skipped /\ now + RateLimitMs + RetryDelayMs <= MaxTime) ~> (Emitted # {})

\* The third retry of a chain has computed the resolution.
C10_Witness ==
    /\ op = "resizeTimeout"
    /\ retryFirings = 3
    /\ Emitted # {}

====
